---- MODULE Spec2Model ----
(***************************************************************************)
(* Model of src/src/main.rs: the seed application state (Model), its       *)
(* message handler (init / update) and the nearest-point queries           *)
(* Model::nearest_points and Model::nearest_way.                           *)
(*                                                                         *)
(* The modules geo, map and osm are declared in main.rs (lines 7-9) but    *)
(* their files are not part of the sources at hand.  The geo functions are *)
(* modelled from the specification (section 4.1), restricted to points of  *)
(* one great circle (the equator) at whole-degree longitudes, where the    *)
(* spherical formulas are exact in integers: the unit of length is the     *)
(* length of one degree of arc.                                            *)
(***************************************************************************)
EXTENDS Integers, Sequences, FiniteSets, TLC

VARIABLES map, osm, position, pending, handled, renders, crashed, result

vars == <<map, osm, position, pending, handled, renders, crashed, result>>

----------------------------------------------------------------------------
(* Bounds of the model. *)

\* largest whole-degree longitude of a node or a position
MaxCoord == 2
\* largest number of nodes of one Way
MaxNodes == 3
\* largest number of Ways of a Document
MaxWays == 2
\* largest number of node references of a Document, all Ways together
MaxDocNodes == 4

----------------------------------------------------------------------------
(* f64 values: a number or NaN.  Comparisons with NaN are false and        *)
(* partial_cmp yields None, as in IEEE 754 / Rust.                         *)

F(n) == [nan |-> FALSE, v |-> n]
NaN == [nan |-> TRUE, v |-> 0]
Zero == F(0)

f64_lt(x, y) == ~x.nan /\ ~y.nan /\ x.v < y.v
f64_gt(x, y) == ~x.nan /\ ~y.nan /\ x.v > y.v
f64_le(x, y) == ~x.nan /\ ~y.nan /\ x.v <= y.v

partial_cmp(x, y) ==
    IF x.nan \/ y.nan THEN "None"
    ELSE IF x.v < y.v THEN "Less"
    ELSE IF x.v = y.v THEN "Equal"
    ELSE "Greater"

Abs(n) == IF n < 0 THEN 0 - n ELSE n

----------------------------------------------------------------------------
(* geo: great-circle functions on the equator (specification 4.1).         *)
(* A Coord is its longitude; any NaN argument gives a NaN result.          *)

geo_distance(a, b) ==
    IF a.nan \/ b.nan THEN NaN ELSE F(Abs(a.v - b.v))

\* initial bearing in degrees: east 90, west 270, and the fallback 0 for a = b
geo_bearing(a, b) ==
    IF a.nan \/ b.nan THEN NaN
    ELSE IF a.v < b.v THEN F(90)
    ELSE IF a.v > b.v THEN F(270)
    ELSE F(0)

\* signed distance from line_start to the projection of point on the line:
\* the angular distance start-point, signed by cos(bearing(start, point) -
\* bearing(start, end)), which is 1, -1, or 0 for a segment of length 0
geo_along_track_distance(line_start, line_end, point) ==
    IF line_start.nan \/ line_end.nan \/ point.nan THEN NaN
    ELSE IF line_start.v = line_end.v \/ point.v = line_start.v THEN F(0)
    ELSE IF (line_end.v > line_start.v) = (point.v > line_start.v)
         THEN F(Abs(point.v - line_start.v))
         ELSE F(0 - Abs(point.v - line_start.v))

\* the point reached from origin on the given bearing after the given distance
geo_destination(origin, bearing, dist) ==
    IF origin.nan \/ bearing.nan \/ dist.nan THEN NaN
    ELSE IF bearing.v = 90 THEN F(origin.v + dist.v)
    ELSE IF bearing.v = 270 THEN F(origin.v - dist.v)
    ELSE origin

----------------------------------------------------------------------------
(* osm: the Document.  A Way carries its id and its node references        *)
(* resolved to coordinates, in node order.                                 *)

Coords == {F(n) : n \in 0..MaxCoord} \cup {NaN}

None == <<>>
Some(x) == <<x>>

OsmWay(i, ns) == [id |-> i, nodes |-> ns]

OsmDocument_new == [ways |-> <<>>]

RECURSIVE Sum(_, _)
Sum(lens, n) == IF n = 0 THEN 0 ELSE lens[n] + Sum(lens, n - 1)

\* the numbers of nodes of the Ways of a Document, in Way order
WayLengths ==
    {lens \in UNION {[1..w -> 0..MaxNodes] : w \in 0..MaxWays} :
        Sum(lens, Len(lens)) <= MaxDocNodes}

\* the Document whose i-th Way has lens[i] nodes, taken in order from flat
OsmDocument(lens, flat) ==
    [ways |-> [i \in 1..Len(lens) |->
        OsmWay(i, [j \in 1..lens[i] |-> flat[Sum(lens, i - 1) + j]])]]

\* osm is a Document within the bounds
IsDocument(doc) ==
    \E lens \in WayLengths :
        \E flat \in [1..Sum(lens, Len(lens)) -> Coords] :
            doc = OsmDocument(lens, flat)

\* way.points(&osm): the Way's nodes in node order
points(way, doc) == way.nodes

----------------------------------------------------------------------------
(* Model::nearest_points and Model::nearest_way.                           *)
(* An entry is the tuple (distance, point, way) of the source.             *)

\* segment_entry without the clamp at the far end of the segment
segment_entry_unclamped(line1, line2, pos, way) ==
    LET along_track_distance == geo_along_track_distance(line1, line2, pos)
        destination ==
            IF f64_lt(along_track_distance, Zero) THEN line1
            ELSE geo_destination(line1, geo_bearing(line1, line2), along_track_distance)
    IN  <<geo_distance(pos, destination), destination, way>>

\* segment_entry with the two ends of the clamp exchanged
segment_entry_swapped(line1, line2, pos, way) ==
    LET length == geo_distance(line1, line2)
        along_track_distance == geo_along_track_distance(line1, line2, pos)
        destination ==
            IF f64_lt(along_track_distance, Zero) THEN line2
            ELSE IF f64_gt(along_track_distance, length) THEN line1
            ELSE geo_destination(line1, geo_bearing(line1, line2), along_track_distance)
    IN  <<geo_distance(pos, destination), destination, way>>

\* the body of the segment loop, for the segment (line1, line2) of way
segment_entry(line1, line2, pos, way) ==
    LET length == geo_distance(line1, line2)
        along_track_distance == geo_along_track_distance(line1, line2, pos)
        bearing == geo_bearing(line1, line2)
        destination ==
            IF f64_lt(along_track_distance, Zero) THEN line1
            ELSE IF f64_gt(along_track_distance, length) THEN line2
            ELSE geo_destination(line1, bearing, along_track_distance)
        distance == geo_distance(pos, destination)
    IN  <<distance, destination, way>>

\* the vector node_distances: one entry per consecutive pair of nodes
node_distances(way, doc, pos) ==
    LET nodes == points(way, doc)
    IN  [i \in 1..(Len(nodes) - 1) |-> segment_entry(nodes[i], nodes[i + 1], pos, way)]

\* min_by_fold taking the later of two equal items
RECURSIVE min_by_fold_last(_, _, _, _)
min_by_fold_last(acc, k, s, i) ==
    IF i > Len(s) THEN [status |-> "some", item |-> Some(acc), index |-> k]
    ELSE LET c == partial_cmp(acc[1], s[i][1])
         IN  IF c = "None" THEN [status |-> "panic", item |-> None, index |-> 0]
             ELSE IF c = "Less" THEN min_by_fold_last(acc, k, s, i + 1)
             ELSE min_by_fold_last(s[i], i, s, i + 1)

\* Iterator::min_by with the comparator partial_cmp(..).expect(..): the fold
\* keeps the accumulator unless the next item is strictly less, and the
\* comparator panics when the two distances do not compare.  k is the place
\* of the accumulator in s; it is reported with the item.
RECURSIVE min_by_fold(_, _, _, _)
min_by_fold(acc, k, s, i) ==
    IF i > Len(s) THEN [status |-> "some", item |-> Some(acc), index |-> k]
    ELSE LET c == partial_cmp(acc[1], s[i][1])
         IN  IF c = "None" THEN [status |-> "panic", item |-> None, index |-> 0]
             ELSE IF c = "Greater" THEN min_by_fold(s[i], i, s, i + 1)
             ELSE min_by_fold(acc, k, s, i + 1)

min_by(s) ==
    IF s = <<>> THEN [status |-> "none", item |-> None, index |-> 0]
    ELSE min_by_fold(s[1], 1, s, 2)

\* the messages of the two expect calls
CouldNotCompare == "Could not compare distances"
CouldNotFind == "Could not find a nearest distance"

\* How a query ended: it returned (points: the vector of nearest_points,
\* way: the Way of nearest_way) or it panicked with msg.  segments holds the
\* node_distances vectors built up to then and picked the place, in each, of
\* the entry min_by chose.
Returned(pts, w, segs, pk) ==
    [status |-> "returned", msg |-> "", points |-> pts, way |-> w,
     segments |-> segs, picked |-> pk]
Panicked(m, pts, segs, pk) ==
    [status |-> "panicked", msg |-> m, points |-> pts, way |-> None,
     segments |-> segs, picked |-> pk]

\* the loop over the Ways
RECURSIVE nearest_points_loop(_, _, _, _, _, _)
nearest_points_loop(doc, pos, i, acc, segs, pk) ==
    IF i > Len(doc.ways) THEN Returned(acc, None, segs, pk)
    ELSE LET nd == node_distances(doc.ways[i], doc, pos)
             m == min_by(nd)
         IN  IF m.status = "panic"
                 THEN Panicked(CouldNotCompare, acc, Append(segs, nd), pk)
             ELSE IF m.status = "none"
                 THEN Panicked(CouldNotFind, acc, Append(segs, nd), pk)
             ELSE nearest_points_loop(doc, pos, i + 1, Append(acc, m.item[1]),
                                      Append(segs, nd), Append(pk, m.index))

nearest_points(self) ==
    IF self.position = None THEN Returned(<<>>, None, <<>>, <<>>)
    ELSE nearest_points_loop(self.osm, self.position[1], 1, <<>>, <<>>, <<>>)

nearest_way(self) ==
    LET np == nearest_points(self)
    IN  IF np.status = "panicked" THEN np
        ELSE LET m == min_by(np.points)
             IN  IF m.status = "panic"
                     THEN Panicked(CouldNotCompare, np.points, np.segments, np.picked)
                 ELSE IF m.status = "none"
                     THEN Panicked(CouldNotFind, np.points, np.segments, np.picked)
                 ELSE Returned(np.points, Some(m.item[1][3]), np.segments, np.picked)

----------------------------------------------------------------------------
(* The queries as operations on a Model drawn from the bounded inputs.     *)

Self == [map |-> map, osm |-> osm, position |-> position]

NoResult == [op |-> "none", out |-> Returned(<<>>, None, <<>>, <<>>)]

Positions == {None} \cup {Some(c) : c \in Coords}

Init ==
    /\ map = None
    /\ IsDocument(osm)
    /\ position \in Positions
    /\ pending = {}
    /\ handled = <<>>
    /\ renders = <<>>
    /\ crashed = FALSE
    /\ result = NoResult

NearestPoints ==
    /\ result' = [op |-> "nearest_points", out |-> nearest_points(Self)]
    /\ UNCHANGED <<map, osm, position, pending, handled, renders, crashed>>

NearestWay ==
    /\ result' = [op |-> "nearest_way", out |-> nearest_way(Self)]
    /\ UNCHANGED <<map, osm, position, pending, handled, renders, crashed>>

Next == NearestPoints \/ NearestWay

Spec == Init /\ [][Next]_vars

----------------------------------------------------------------------------
(* Properties of the queries, checked under Spec.                          *)

Out == result.out
Queried == result.op # "none"
WayNodes(i) == points(osm.ways[i], osm)
AllNumbers(ns) == \A n \in 1..Len(ns) : ~ns[n].nan

\* s[k] has the least distance of s, and no earlier entry has the same
IsFirstMin(s, k) ==
    /\ k \in 1..Len(s)
    /\ \A j \in 1..Len(s) :
        /\ j # k => f64_le(s[k][1], s[j][1])
        /\ j < k => f64_lt(s[k][1], s[j][1])

\* C1: with a position set and at least one Way, nearest_way returns the Way
\* whose entry of nearest_points has the least distance, the first such Way
\* in Way order when several tie.
C1_NearestWayIsFirstMinimum ==
    (result.op = "nearest_way" /\ position # None /\ Len(osm.ways) >= 1) =>
        /\ Out.status = "returned"
        /\ Len(Out.points) = Len(osm.ways)
        /\ \E k \in 1..Len(Out.points) :
            /\ IsFirstMin(Out.points, k)
            /\ Out.way = Some(osm.ways[k])

\* C2: the entry nearest_points produces for a Way of at least two nodes is
\* the entry of the segment with the least segment distance, the first such
\* segment in node order when several tie.
C2_WayEntryIsFirstSegmentMinimum ==
    (Queried /\ Out.status = "returned" /\ position # None) =>
        \A i \in 1..Len(osm.ways) :
            Len(WayNodes(i)) >= 2 =>
                /\ Len(Out.segments[i]) = Len(WayNodes(i)) - 1
                /\ IsFirstMin(Out.segments[i], Out.picked[i])
                /\ Out.points[i] = Out.segments[i][Out.picked[i]]

\* a Way of three nodes whose two segments tie, and the first was taken
C2_Witness ==
    /\ result.op = "nearest_points" /\ Out.status = "returned" /\ position # None
    /\ \E i \in 1..Len(osm.ways) :
        /\ Len(Out.segments[i]) = 2
        /\ Out.segments[i][1][1] = Out.segments[i][2][1]
        /\ Out.segments[i][1][2] = Out.segments[i][2][2]
        /\ Out.picked[i] = 1

\* C3: the candidate of a segment (line1, line2) is line1 when the
\* along-track distance is below 0, line2 when it is above the length of the
\* segment, and destination(line1, bearing, along) otherwise; the segment's
\* distance is the distance from the position to the candidate.
C3_SegmentCandidateIsClamped ==
    (Queried /\ position # None) =>
        \A i \in 1..Len(Out.segments) : \A j \in 1..Len(Out.segments[i]) :
            LET line1 == WayNodes(i)[j]
                line2 == WayNodes(i)[j + 1]
                along == geo_along_track_distance(line1, line2, position[1])
                e == Out.segments[i][j]
            IN  /\ f64_lt(along, Zero) => e[2] = line1
                /\ f64_gt(along, geo_distance(line1, line2)) => e[2] = line2
                /\ (~f64_lt(along, Zero) /\ ~f64_gt(along, geo_distance(line1, line2))) =>
                       e[2] = geo_destination(line1, geo_bearing(line1, line2), along)
                /\ e[1] = geo_distance(position[1], e[2])

\* a Way with a segment clamped to its first node and one clamped to its
\* second node
C3_Witness ==
    /\ Queried /\ position # None
    /\ \E i \in 1..Len(Out.segments) : \E j, k \in 1..Len(Out.segments[i]) :
        /\ f64_lt(geo_along_track_distance(WayNodes(i)[j], WayNodes(i)[j + 1], position[1]), Zero)
        /\ Out.segments[i][j][2] = WayNodes(i)[j]
        /\ f64_gt(geo_along_track_distance(WayNodes(i)[k], WayNodes(i)[k + 1], position[1]),
                  geo_distance(WayNodes(i)[k], WayNodes(i)[k + 1]))
        /\ Out.segments[i][k][2] = WayNodes(i)[k + 1]

C5_SingleNodeWayGivesPointDistance ==
    (result.op = "nearest_points" /\ position # None) =>
        \A i \in 1..Len(osm.ways) :
            Len(WayNodes(i)) = 1 =>
                /\ Out.status = "returned"
                /\ Len(Out.points) = Len(osm.ways)
                /\ Out.points[i][1] = geo_distance(position[1], WayNodes(i)[1])

\* C6: with no Way in the Document, nearest_way ends with the result value
\* NoWays and not with a panic.
C6_NoWaysIsAResultValue ==
    (result.op = "nearest_way" /\ position # None /\ Len(osm.ways) = 0) =>
        (Out.status = "failed" /\ Out.msg = "NoWays")

\* C7: with no position set, nearest_way ends with the result value
\* NoPosition and nearest_points returns the empty vector.
C7_NoPositionIsAResultValue ==
    position = None =>
        /\ result.op = "nearest_way" =>
               (Out.status = "failed" /\ Out.msg = "NoPosition")
        /\ result.op = "nearest_points" =>
               (Out.status = "returned" /\ Out.points = <<>>)

\* min_by compares every item of a vector of two or more: a NaN distance
\* among them meets the comparator
HasNaNPair(s) == Len(s) >= 2 /\ \E j \in 1..Len(s) : s[j][1].nan

ComparisonMeetsNaN ==
    \/ \E i \in 1..Len(Out.segments) : HasNaNPair(Out.segments[i])
    \/ result.op = "nearest_way" /\ Len(Out.points) = Len(osm.ways) /\ HasNaNPair(Out.points)

\* C8: when a comparison of the minimization over the segments of a Way or
\* over the Ways meets a NaN distance, the query ends with the result value
\* ComputationError and not with a panic.
C8_NaNIsAComputationError ==
    (Queried /\ ComparisonMeetsNaN) =>
        (Out.status = "failed" /\ Out.msg = "ComputationError")

\* C9: with a position set and every Way of at least two nodes,
\* nearest_points returns one entry per Way, in Way order, the i-th entry
\* carrying the i-th Way; the query leaves the Document and the position as
\* they were.
C9_OneEntryPerWayInOrder ==
    /\ [](( /\ result.op = "nearest_points"
            /\ position # None
            /\ \A i \in 1..Len(osm.ways) : Len(WayNodes(i)) >= 2 ) =>
              /\ Out.status = "returned"
              /\ Len(Out.points) = Len(osm.ways)
              /\ \A i \in 1..Len(osm.ways) : Out.points[i][3] = osm.ways[i])
    /\ [][osm' = osm /\ position' = position]_vars

----------------------------------------------------------------------------
(* init and update: the application started by App::start.                 *)

\* the position init sets, in the model's degrees
InitPosition == 1

\* a response text: the encoding of a Document, or text that does not decode
ResponseTexts(lens) ==
    {[wellformed |-> b, lens |-> lens, flat |-> flat] :
        b \in BOOLEAN, flat \in [1..Sum(lens, Len(lens)) -> Coords]}

\* quick_xml::de::from_str: Ok(Document) or Err
from_str(response_data) ==
    IF response_data.wellformed
    THEN [ok |-> TRUE, doc |-> OsmDocument(response_data.lens, response_data.flat)]
    ELSE [ok |-> FALSE, doc |-> OsmDocument_new]

\* a call into the map module, with the Model it is handed
MapCall(name, model) == [call |-> name, map |-> model.map, osm |-> model.osm]

\* update rendering the topology before it stores the fetched Document
update_render_before_store(msg, model, calls) ==
    IF msg.tag = "SetMap" THEN
        LET m == [model EXCEPT !.map = Some(msg.data)]
        IN  [model |-> m,
             calls |-> calls \o <<MapCall("set_view", m), MapCall("render_topology", m),
                                  MapCall("render_position", m)>>,
             panicked |-> FALSE]
    ELSE IF msg.tag = "OsmFetched_Ok" THEN
        LET d == from_str(msg.data)
        IN  IF ~d.ok THEN [model |-> model, calls |-> calls, panicked |-> TRUE]
            ELSE [model |-> [model EXCEPT !.osm = d.doc],
                  calls |-> Append(calls, MapCall("render_topology", model)),
                  panicked |-> FALSE]
    ELSE [model |-> model, calls |-> calls, panicked |-> FALSE]

\* update(msg, model, _): the Model and the calls made, or a panic
update(msg, model, calls) ==
    IF msg.tag = "SetMap" THEN
        LET m == [model EXCEPT !.map = Some(msg.data)]
        IN  [model |-> m,
             calls |-> calls \o <<MapCall("set_view", m), MapCall("render_topology", m),
                                  MapCall("render_position", m)>>,
             panicked |-> FALSE]
    ELSE IF msg.tag = "OsmFetched_Ok" THEN
        LET d == from_str(msg.data)
        IN  IF ~d.ok THEN [model |-> model, calls |-> calls, panicked |-> TRUE]
            ELSE LET m == [model EXCEPT !.osm = d.doc]
                 IN  [model |-> m,
                      calls |-> Append(calls, MapCall("render_topology", m)),
                      panicked |-> FALSE]
    ELSE [model |-> model, calls |-> calls, panicked |-> FALSE]

\* init: the Model it returns and the two messages it schedules
InitApp ==
    /\ map = None
    /\ osm = OsmDocument_new
    /\ position = Some(F(InitPosition))
    /\ pending = {"SetMap", "OsmFetched"}
    /\ handled = <<>>
    /\ renders = <<>>
    /\ crashed = FALSE
    /\ result = NoResult

\* the runtime hands msg to update; a panic ends the application
Deliver(kind, msg) ==
    /\ ~crashed
    /\ kind \in pending
    /\ pending' = pending \ {kind}
    /\ LET u == update(msg, Self, renders)
       IN  /\ map' = u.model.map
           /\ osm' = u.model.osm
           /\ position' = u.model.position
           /\ renders' = u.calls
           /\ crashed' = u.panicked
           /\ handled' = IF u.panicked THEN handled ELSE Append(handled, msg)
    /\ UNCHANGED result

\* after the next render: map::init() gives the map handle
SetMap ==
    /\ "SetMap" \in pending
    /\ Deliver("SetMap", [tag |-> "SetMap", data |-> "map"])

\* the fetch command ends with a response text
OsmFetchedOk ==
    /\ "OsmFetched" \in pending
    /\ \E lens \in WayLengths : \E text \in ResponseTexts(lens) :
           Deliver("OsmFetched", [tag |-> "OsmFetched_Ok", data |-> text])

\* the fetch command ends with a fetch error
OsmFetchedErr ==
    /\ "OsmFetched" \in pending
    /\ Deliver("OsmFetched", [tag |-> "OsmFetched_Err", data |-> "error"])

NextApp == SetMap \/ OsmFetchedOk \/ OsmFetchedErr

AppSpec == InitApp /\ [][NextApp]_vars

----------------------------------------------------------------------------
(* Properties of init and update, checked under AppSpec.                   *)

Handled(tags) == {i \in 1..Len(handled) : handled[i].tag \in tags}
Scheduled(kind) == IF kind \in pending THEN 1 ELSE 0

TopologyCalls == {i \in 1..Len(renders) : renders[i].call = "render_topology"}
LastTopologyCall == renders[CHOOSE i \in TopologyCalls : \A j \in TopologyCalls : j <= i]

BothHandled == Handled({"SetMap"}) # {} /\ Handled({"OsmFetched_Ok"}) # {}
FetchedDocument == from_str(handled[CHOOSE i \in Handled({"OsmFetched_Ok"}) : TRUE].data).doc

\* the step in which update handles OsmFetched(Err)
HandlesFetchError ==
    /\ Len(handled') = Len(handled) + 1
    /\ handled'[Len(handled')].tag = "OsmFetched_Err"

\* C10: init schedules one SetMap and one OsmFetched, handled in either
\* order; once both are handled and the fetch succeeded, the last
\* render_topology call was made with the map handle set and the fetched
\* Document in place of the initial empty one; handling a failed fetch
\* leaves map, Document and position as they were and renders nothing.
C10_LastRenderSeesMapAndDocument ==
    /\ [](/\ ~crashed => /\ Scheduled("SetMap") + Cardinality(Handled({"SetMap"})) = 1
                         /\ Scheduled("OsmFetched")
                              + Cardinality(Handled({"OsmFetched_Ok", "OsmFetched_Err"})) = 1
          /\ BothHandled => /\ TopologyCalls # {}
                            /\ LastTopologyCall.map # None
                            /\ LastTopologyCall.osm = FetchedDocument
                            /\ osm = FetchedDocument)
    /\ [][HandlesFetchError => UNCHANGED <<map, osm, position, renders>>]_vars

\* the fetch was handled before the map handle arrived, and the Document
\* fetched has a Way
C10_Witness ==
    /\ Len(handled) = 2
    /\ handled[1].tag = "OsmFetched_Ok"
    /\ handled[2].tag = "SetMap"
    /\ Len(osm.ways) >= 1
    /\ LastTopologyCall.map # None
    /\ LastTopologyCall.osm = osm

====
